---------------------------- MODULE Spec2Model ----------------------------
(***************************************************************************)
(* Model of src/storage_router.py: a key/value store over one SQLite table *)
(* (automerge_storage), reached through one process-wide connection `db`.  *)
(*                                                                         *)
(* The table is a set of rows [seg, data]; `working` is what statements on *)
(* the shared connection read and write (it includes the open transaction),*)
(* `committed` is what the database file holds.  save_chunk is a coroutine *)
(* on the event loop (async def), the other four handlers run on pool      *)
(* threads (def), so their statements interleave.                          *)
(***************************************************************************)
EXTENDS Integers, Sequences, FiniteSets, Bags, TLC

\* ------------------------------------------------------------- bounds
\* Number of requests a behaviour issues.
MaxReq == 3

Req == 1..MaxReq

\* ----------------------------------------------------- program constants
MAX_SEGMENTS == 4

HTTP_200_OK == 200
HTTP_400_BAD_REQUEST == 400
HTTP_404_NOT_FOUND == 404
\* An exception no handler catches (sqlite3.Error) is answered with 500.
HTTP_500_INTERNAL_SERVER_ERROR == 500

\* ------------------------------------------------------- request inputs
\* Keys a client sends (the repeated `key` query parameter): the empty key,
\* 1..4 segments, an empty segment in the middle, the same key with an empty
\* segment appended, a segment that extends another as a string, and a key
\* of 5 segments.
KeyPool ==
    { <<>>,
      <<"a">>,
      <<"ab">>,
      <<"a", "b">>,
      <<"a", "", "b">>,
      <<"a", "", "b", "">>,
      <<"a", "b", "c", "d">>,
      <<"a", "b", "c", "d", "e">> }

\* Request bodies: the empty payload and b"\x01\x02".
BodyPool == { <<>>, <<1, 2>> }

VARIABLES
    working,     \* rows seen by statements on the connection `db`
    committed,   \* rows of the database file (last COMMIT)
    clock,       \* number of calls made on the connection so far
                 \* (statements and commits)
    wmark,       \* clock of the last write statement in `working`
    cmark,       \* clock of the last write statement in `committed`
    req          \* the requests: inputs, position (pc), response (status,
                 \* body, items), the clock of the request's statement (at)
                 \* and of its response (ret), the table the statement saw
                 \* (snap) and left (post), and for a SELECT the database's
                 \* content at that time (csnap)

vars == <<working, committed, clock, wmark, cmark, req>>

\* ------------------------------------------------------------ key codec

\* "if not key": the key list is empty.
NotKey(key) == key = <<>>

\* Variant of TooManySegments: the bound is off by one.
TooManySegments_OffByOne(key) == Len(key) > MAX_SEGMENTS + 1

\* pad_segments raises HTTP 400 for these keys.
TooManySegments(key) == Len(key) > MAX_SEGMENTS

\* pad_segments: key + [""] * (MAX_SEGMENTS - len(key)), as a 4-tuple.
pad_segments(key) ==
    key \o [i \in 1..(MAX_SEGMENTS - Len(key)) |-> ""]

\* load_range: [row[i] for i in range(MAX_SEGMENTS) if row[i] != ""]
original_key(row) ==
    SelectSeq(SubSeq(row.seg, 1, MAX_SEGMENTS), LAMBDA s : s # "")

\* The base64 alphabet; index 65 is the padding character.
B64Alphabet ==
    << "A","B","C","D","E","F","G","H","I","J","K","L","M",
       "N","O","P","Q","R","S","T","U","V","W","X","Y","Z",
       "a","b","c","d","e","f","g","h","i","j","k","l","m",
       "n","o","p","q","r","s","t","u","v","w","x","y","z",
       "0","1","2","3","4","5","6","7","8","9","+","/","=" >>

B64Char(n) == B64Alphabet[n + 1]

\* base64.b64encode(data).decode("utf-8"), as a sequence of characters.
RECURSIVE b64encode(_)
b64encode(data) ==
    IF Len(data) = 0 THEN <<>>
    ELSE IF Len(data) = 1 THEN
        << B64Char(data[1] \div 4), B64Char((data[1] % 4) * 16),
           B64Char(64), B64Char(64) >>
    ELSE IF Len(data) = 2 THEN
        << B64Char(data[1] \div 4),
           B64Char((data[1] % 4) * 16 + data[2] \div 16),
           B64Char((data[2] % 16) * 4), B64Char(64) >>
    ELSE
        << B64Char(data[1] \div 4),
           B64Char((data[1] % 4) * 16 + data[2] \div 16),
           B64Char((data[2] % 16) * 4 + data[3] \div 64),
           B64Char(data[3] % 64) >>
        \o b64encode(SubSeq(data, 4, Len(data)))

\* -------------------------------------------------------- SQL statements

\* Variant of sql_upsert: a plain INSERT into a table without the primary key.
sql_upsert_NoPrimaryKey(tbl, seg, data) ==
    tbl \cup { [seg |-> seg, data |-> data] }

\* Variant of sql_upsert: ON CONFLICT ... DO NOTHING.
sql_upsert_DoNothing(tbl, seg, data) ==
    IF \E row \in tbl : row.seg = seg
    THEN tbl
    ELSE tbl \cup { [seg |-> seg, data |-> data] }

\* Variant of sql_upsert: the update is an UPDATE ... WHERE segment0=?.
sql_upsert_UpdateByFirstSegment(tbl, seg, data) ==
    { IF row.seg[1] = seg[1] THEN [row EXCEPT !.data = data] ELSE row : row \in tbl }
    \cup { [seg |-> seg, data |-> data] }

\* Variant of sql_upsert: INSERT OR REPLACE on a table whose primary key is
\* segment0 alone.
sql_upsert_FirstSegmentKey(tbl, seg, data) ==
    { row \in tbl : row.seg[1] # seg[1] } \cup { [seg |-> seg, data |-> data] }

\* INSERT ... ON CONFLICT(segment0..segment3) DO UPDATE SET data=excluded.data
sql_upsert(tbl, seg, data) ==
    IF \E row \in tbl : row.seg = seg
    THEN { IF row.seg = seg THEN [row EXCEPT !.data = data] ELSE row : row \in tbl }
    ELSE tbl \cup { [seg |-> seg, data |-> data] }

\* Variant of sql_select_item: WHERE segment0=? alone.
sql_select_item_FirstSegment(tbl, seg) ==
    { row \in tbl : row.seg[1] = seg[1] }

\* SELECT data ... WHERE segment0=? AND segment1=? AND segment2=? AND segment3=?
sql_select_item(tbl, seg) ==
    { row \in tbl : \A i \in 1..MAX_SEGMENTS : row.seg[i] = seg[i] }

\* Variant of sql_delete_item: WHERE segment0=? alone.
sql_delete_item_FirstSegment(tbl, seg) ==
    { row \in tbl : row.seg[1] # seg[1] }

\* Variant of sql_delete_item: the missing segments are bound as NULL, which
\* equals nothing, so only keys of 4 segments delete.
sql_delete_item_NullPadding(tbl, seg) ==
    { row \in tbl : ~(seg[MAX_SEGMENTS] # "" /\ row.seg = seg) }

\* DELETE ... WHERE segment0=? AND segment1=? AND segment2=? AND segment3=?
sql_delete_item(tbl, seg) ==
    { row \in tbl : ~(\A i \in 1..MAX_SEGMENTS : row.seg[i] = seg[i]) }

\* Variant of range_conditions: range(len(key) - 1).
range_conditions_OneShort(row, key) ==
    \A i \in 1..(Len(key) - 1) : row.seg[i] = key[i]

\* conditions = [f"segment{i} = ?" for i in range(len(key))], joined by AND
range_conditions(row, key) ==
    \A i \in 1..Len(key) : row.seg[i] = key[i]

\* SELECT segment0, segment1, segment2, segment3, data ... WHERE <conditions>
sql_select_range(tbl, key) == { row \in tbl : range_conditions(row, key) }

\* Variant of sql_delete_range: the conditions joined by OR.
sql_delete_range_AnyCondition(tbl, key) ==
    { row \in tbl : ~(\E i \in 1..Len(key) : row.seg[i] = key[i]) }

\* DELETE FROM automerge_storage WHERE <conditions>
sql_delete_range(tbl, key) == { row \in tbl : ~range_conditions(row, key) }

\* results.append({"key": original_key, "data": encoded_data})
range_entry(row) == [key |-> original_key(row), data |-> b64encode(row.data)]

\* The list load_range returns, one {"key", "data"} entry per fetched row;
\* the rows come in no stated order, so the list is kept as a bag.
range_results(rows) ==
    [e \in { range_entry(row) : row \in rows } |->
        Cardinality({ row \in rows : range_entry(row) = e })]

\* ------------------------------------------------------------- requests

Idle ==
    [kind |-> "none", key |-> <<>>, val |-> <<>>, pc |-> "idle", status |-> 0,
     body |-> <<>>, items |-> EmptyBag, at |-> 0, ret |-> 0,
     snap |-> {}, post |-> {}, csnap |-> {}]

\* Requests are issued in the order of their numbers.
CanBegin(r) ==
    /\ req[r].pc = "idle"
    /\ \A q \in Req : q < r => req[q].pc # "idle"

\* Variant of EventLoopFree: save_chunk declared "def", a pool thread like
\* the other handlers.
EventLoopFree_PoolThread(r) == TRUE

\* save_chunk has no await between cursor.execute and db.commit: while one
\* coroutine is there, the event loop runs no other coroutine.
EventLoopFree(r) ==
    \A q \in Req : q # r => ~(req[q].kind = "Put" /\ req[q].pc = "commit")

\* raise HTTPException(status_code=400): the handler ends, nothing executed.
Reject(r, kind, key, val) ==
    /\ UNCHANGED <<working, committed, clock, wmark, cmark>>
    /\ req' = [req EXCEPT ![r] =
                 [Idle EXCEPT !.kind = kind, !.key = key, !.val = val,
                              !.pc = "done", !.status = HTTP_400_BAD_REQUEST,
                              !.ret = clock,
                              !.snap = working, !.post = working']]

\* load_range, remove_range: "if not key or len(key) > MAX_SEGMENTS"
range_key_invalid(key) == NotKey(key) \/ Len(key) > MAX_SEGMENTS

\* A request that passed the key checks, before its statement runs.
Accepted(kind, key, val) ==
    [Idle EXCEPT !.kind = kind, !.key = key, !.val = val, !.pc = "run"]

\* cursor.execute of a write statement on the connection: it opens the
\* transaction if none is open and changes `working` only.  `tbl` is the
\* table the statement leaves.
db_execute_write(r, rec, tbl) ==
    /\ working' = tbl
    /\ clock' = clock + 1
    /\ wmark' = clock + 1
    /\ req' = [req EXCEPT ![r] =
                 [rec EXCEPT !.pc = "commit", !.at = clock + 1,
                             !.snap = working, !.post = tbl]]
    /\ UNCHANGED <<committed, cmark>>

\* Variant of db_execute_read: the read ends with a db.commit().
db_execute_read_ThenCommit(r, rec) ==
    /\ clock' = clock + 1
    /\ req' = [req EXCEPT ![r] =
                 [rec EXCEPT !.pc = "done", !.at = clock + 1, !.ret = clock + 1,
                             !.snap = working, !.post = working,
                             !.csnap = committed]]
    /\ committed' = working
    /\ cmark' = wmark
    /\ UNCHANGED <<working, wmark>>

\* cursor.execute of a SELECT: `rec` carries the response built from the rows.
db_execute_read(r, rec) ==
    /\ clock' = clock + 1
    /\ req' = [req EXCEPT ![r] =
                 [rec EXCEPT !.pc = "done", !.at = clock + 1, !.ret = clock + 1,
                             !.snap = working, !.post = working,
                             !.csnap = committed]]
    /\ UNCHANGED <<working, committed, wmark, cmark>>

\* Variant of db_commit: the handler returns without db.commit().
db_commit_Skipped(r) ==
    /\ req' = [req EXCEPT ![r].pc = "done", ![r].status = HTTP_200_OK,
                          ![r].ret = clock]
    /\ UNCHANGED <<working, committed, clock, wmark, cmark>>

\* db.commit(); return {"status": "ok"}: the open transaction, whoever wrote
\* it, becomes the database's content.
db_commit(r) ==
    /\ committed' = working
    /\ cmark' = wmark
    /\ clock' = clock + 1
    /\ req' = [req EXCEPT ![r].pc = "done", ![r].status = HTTP_200_OK,
                          ![r].ret = clock + 1]
    /\ UNCHANGED <<working, wmark>>

\* ------------------------------------------------------------- handlers

\* PUT /storage/item, up to "await request.body()".
save_chunk_begin(r) ==
    /\ CanBegin(r)
    /\ EventLoopFree(r)
    /\ \E key \in KeyPool, val \in BodyPool :
          IF NotKey(key) \/ TooManySegments(key)
          THEN Reject(r, "Put", key, val)
          ELSE /\ req' = [req EXCEPT ![r] = Accepted("Put", key, val)]
               /\ UNCHANGED <<working, committed, clock, wmark, cmark>>

\* Variant of save_chunk_execute: the upsert written as two statements, a
\* DELETE of the old row and then the INSERT.
save_chunk_execute_DeleteThenInsert(r) ==
    /\ req[r].kind = "Put"
    /\ req[r].pc = "run"
    /\ EventLoopFree(r)
    /\ IF sql_select_item(working, pad_segments(req[r].key)) # {}
       THEN /\ working' = sql_delete_item(working, pad_segments(req[r].key))
            /\ clock' = clock + 1
            /\ wmark' = clock + 1
            /\ UNCHANGED <<committed, cmark, req>>
       ELSE db_execute_write(r, req[r],
                sql_upsert(working, pad_segments(req[r].key), req[r].val))

\* save_chunk: the body has arrived; cursor.execute(INSERT ... ON CONFLICT).
save_chunk_execute(r) ==
    /\ req[r].kind = "Put"
    /\ req[r].pc = "run"
    /\ EventLoopFree(r)
    /\ db_execute_write(r, req[r],
            sql_upsert(working, pad_segments(req[r].key), req[r].val))

\* save_chunk: db.commit(); return {"status": "ok"}.
save_chunk_commit(r) ==
    /\ req[r].kind = "Put"
    /\ req[r].pc = "commit"
    /\ db_commit(r)

\* GET /storage/item: the whole handler; its one statement is the SELECT.
load_chunk(r) ==
    /\ CanBegin(r)
    /\ \E key \in KeyPool :
          IF NotKey(key) \/ TooManySegments(key)
          THEN Reject(r, "Get", key, <<>>)
          ELSE LET rows == sql_select_item(working, pad_segments(key))
                   rec  == Accepted("Get", key, <<>>)
               IN  IF rows = {}     \* cursor.fetchone() is None
                   THEN db_execute_read(r, [rec EXCEPT !.status = HTTP_404_NOT_FOUND])
                   ELSE \E row \in rows :
                          db_execute_read(r, [rec EXCEPT !.status = HTTP_200_OK,
                                                        !.body = row.data])

\* DELETE /storage/item, up to and including cursor.execute(DELETE ...).
remove_chunk_execute(r) ==
    /\ CanBegin(r)
    /\ \E key \in KeyPool :
          IF NotKey(key) \/ TooManySegments(key)
          THEN Reject(r, "Delete", key, <<>>)
          ELSE db_execute_write(r, Accepted("Delete", key, <<>>),
                   sql_delete_item(working, pad_segments(key)))

\* remove_chunk: db.commit(); return {"status": "ok"}.
remove_chunk_commit(r) ==
    /\ req[r].kind = "Delete"
    /\ req[r].pc = "commit"
    /\ db_commit(r)

\* Variant of load_range: an empty result raises 404, as load_chunk does.
load_range_NotFoundWhenEmpty(r) ==
    /\ CanBegin(r)
    /\ \E key \in KeyPool :
          IF range_key_invalid(key)
          THEN Reject(r, "RangeGet", key, <<>>)
          ELSE LET rows == sql_select_range(working, key)
               IN  db_execute_read(r,
                       [Accepted("RangeGet", key, <<>>) EXCEPT
                           !.status = IF rows = {} THEN HTTP_404_NOT_FOUND
                                      ELSE HTTP_200_OK,
                           !.items = range_results(rows)])

\* GET /storage/range: the whole handler; its one statement is the SELECT.
load_range(r) ==
    /\ CanBegin(r)
    /\ \E key \in KeyPool :
          IF range_key_invalid(key)
          THEN Reject(r, "RangeGet", key, <<>>)
          ELSE db_execute_read(r,
                   [Accepted("RangeGet", key, <<>>) EXCEPT
                       !.status = HTTP_200_OK,
                       !.items = range_results(sql_select_range(working, key))])

\* DELETE /storage/range, up to and including cursor.execute(DELETE ...).
remove_range_execute(r) ==
    /\ CanBegin(r)
    /\ \E key \in KeyPool :
          IF range_key_invalid(key)
          THEN Reject(r, "RangeDelete", key, <<>>)
          ELSE db_execute_write(r, Accepted("RangeDelete", key, <<>>),
                   sql_delete_range(working, key))

\* remove_range: db.commit(); return {"status": "ok"}.
remove_range_commit(r) ==
    /\ req[r].kind = "RangeDelete"
    /\ req[r].pc = "commit"
    /\ db_commit(r)

\* ------------------------------------------------------ backend failures
\* cursor.execute raises sqlite3.Error (database locked past busy_timeout,
\* disk error): the statement changes nothing, no handler catches the
\* exception, the request is answered 500.
db_execute_error(r, rec) ==
    /\ clock' = clock + 1
    /\ req' = [req EXCEPT ![r] =
                 [rec EXCEPT !.pc = "done",
                             !.status = HTTP_500_INTERNAL_SERVER_ERROR,
                             !.ret = clock + 1,
                             !.snap = working, !.post = working]]
    /\ UNCHANGED <<working, committed, wmark, cmark>>

\* db.commit() raises sqlite3.Error while a transaction is open: nothing is
\* committed, and since no handler rolls back, the transaction stays open
\* on the connection.
db_commit_error(r) ==
    /\ wmark # cmark
    /\ clock' = clock + 1
    /\ req' = [req EXCEPT ![r].pc = "done",
                          ![r].status = HTTP_500_INTERNAL_SERVER_ERROR,
                          ![r].ret = clock + 1]
    /\ UNCHANGED <<working, committed, wmark, cmark>>

save_chunk_execute_error(r) ==
    /\ req[r].kind = "Put"
    /\ req[r].pc = "run"
    /\ EventLoopFree(r)
    /\ db_execute_error(r, req[r])

save_chunk_commit_error(r) ==
    /\ req[r].kind = "Put"
    /\ req[r].pc = "commit"
    /\ db_commit_error(r)

remove_chunk_execute_error(r) ==
    /\ CanBegin(r)
    /\ \E key \in KeyPool :
          /\ ~(NotKey(key) \/ TooManySegments(key))
          /\ db_execute_error(r, Accepted("Delete", key, <<>>))

remove_chunk_commit_error(r) ==
    /\ req[r].kind = "Delete"
    /\ req[r].pc = "commit"
    /\ db_commit_error(r)

\* The process dies (power loss, kill): the open transaction is discarded,
\* requests in flight get no response, and the process starts again on the
\* database file.
Crash ==
    /\ working' = committed
    /\ wmark' = cmark
    /\ req' = [r \in Req |->
                 IF req[r].pc \in {"run", "commit"}
                 THEN [req[r] EXCEPT !.pc = "lost"] ELSE req[r]]
    /\ UNCHANGED <<committed, cmark, clock>>

Init ==
    /\ working = {}
    /\ committed = {}
    /\ clock = 0
    /\ wmark = 0
    /\ cmark = 0
    /\ req = [r \in Req |-> Idle]

Next ==
    \E r \in Req :
        \/ save_chunk_begin(r)
        \/ save_chunk_execute(r)
        \/ save_chunk_commit(r)
        \/ load_chunk(r)
        \/ remove_chunk_execute(r)
        \/ remove_chunk_commit(r)
        \/ load_range(r)
        \/ remove_range_execute(r)
        \/ remove_range_commit(r)

Spec == Init /\ [][Next]_vars

\* The same program with crashes of the process.
NextCrash == Next \/ Crash

SpecCrash == Init /\ [][NextCrash]_vars

\* The same program with a backend that can fail the statement or the commit
\* of a point write.
NextFail ==
    \/ Next
    \/ \E r \in Req :
          \/ save_chunk_execute_error(r)
          \/ save_chunk_commit_error(r)
          \/ remove_chunk_execute_error(r)
          \/ remove_chunk_commit_error(r)

SpecFail == Init /\ [][NextFail]_vars

\* ---------------------------------------------------- vocabulary of claims

\* The encoded key of a logical key: 4 slots, the key's segments first, then
\* empty strings.
Slots(k) == [i \in 1..4 |-> IF i <= Len(k) THEN k[i] ELSE ""]

ValidKey(k) == Len(k) >= 1 /\ Len(k) <= 4

\* The rows of `tbl` that agree with prefix p on its first Len(p) slots.
Matching(tbl, p) == { row \in tbl : \A i \in 1..Len(p) : row.seg[i] = p[i] }

\* The rows of `tbl` stored under the encoded key of k.
RecordsOf(tbl, k) == { row \in tbl : row.seg = Slots(k) }

Ran(r) == req[r].at > 0

IsWrite(r) == req[r].kind \in {"Put", "Delete", "RangeDelete"}

\* Request w's statement is a write to the record key k addresses.
WritesTo(w, k) ==
    /\ Ran(w)
    /\ \/ req[w].kind \in {"Put", "Delete"} /\ Slots(req[w].key) = Slots(k)
       \/ /\ req[w].kind = "RangeDelete"
          /\ \A i \in 1..Len(req[w].key) : Slots(k)[i] = req[w].key[i]

\* Some write to k's record ran after statement time t1 and before t2,
\* other than request p's.
WrittenBetween(k, p, t1, t2) ==
    \E w \in Req : w # p /\ WritesTo(w, k) /\ req[w].at > t1 /\ req[w].at < t2

\* ------------------------------------------------------------------ claims

\* C1: a Put(k, v) followed by a Get(k), with no other write to the record of
\* k between the two statements, makes the Get return 200 with exactly v.
C1_RoundTrip ==
    \A p \in Req, g \in Req :
        ( /\ req[p].kind = "Put" /\ Ran(p)
          /\ req[g].kind = "Get" /\ Ran(g)
          /\ req[g].key = req[p].key
          /\ req[p].at < req[g].at
          /\ ~WrittenBetween(req[p].key, p, req[p].at, req[g].at) )
        => (req[g].status = 200 /\ req[g].body = req[p].val)

\* A Put of b"\x01\x02" under a key with an empty segment returned Ok, and a
\* Get of that key, issued after the Ok, returned the payload.
C1_Witness ==
    \E p \in Req, g \in Req :
        /\ req[p].kind = "Put" /\ req[p].status = 200
        /\ req[p].key = <<"a", "", "b">> /\ req[p].val = <<1, 2>>
        /\ req[g].kind = "Get" /\ req[g].key = req[p].key
        /\ req[g].at > req[p].ret
        /\ req[g].status = 200 /\ req[g].body = <<1, 2>>

\* C2: the table, in the open transaction and in the database, never holds
\* two rows with the same 4 slots, so no logical key has two records.
C2_KeyUnique ==
    \A tbl \in {working, committed} :
        /\ \A x \in tbl, y \in tbl : x.seg = y.seg => x = y
        /\ \A k \in KeyPool : Cardinality(RecordsOf(tbl, k)) <= 1

\* A Put hit an existing row holding other data, and the table holds two
\* records or more.
C2_Witness ==
    \E p \in Req :
        /\ req[p].kind = "Put" /\ req[p].status = 200
        /\ \E row \in req[p].snap :
              row.seg = Slots(req[p].key) /\ row.data # req[p].val
        /\ Cardinality(committed) >= 2

\* C3: a Put on a key that has a record leaves exactly one record for the
\* key, holding the new value; and Put(k, v1), Put(k, v2), Get(k), with no
\* other write to k's record after the second Put, returns v2.
C3_Overwrite ==
    /\ \A p \in Req :
          (req[p].kind = "Put" /\ Ran(p) /\ RecordsOf(req[p].snap, req[p].key) # {})
          => RecordsOf(req[p].post, req[p].key)
                = { [seg |-> Slots(req[p].key), data |-> req[p].val] }
    /\ \A p1 \in Req, p2 \in Req, g \in Req :
          ( /\ req[p1].kind = "Put" /\ req[p2].kind = "Put" /\ req[g].kind = "Get"
            /\ Ran(p1) /\ Ran(p2) /\ Ran(g)
            /\ req[p1].key = req[p2].key /\ req[g].key = req[p2].key
            /\ req[p1].at < req[p2].at /\ req[p2].at < req[g].at
            /\ ~WrittenBetween(req[p2].key, p2, req[p2].at, req[g].at) )
          => (req[g].status = 200 /\ req[g].body = req[p2].val)

\* Put(k, v1), Put(k, v2), Get(k) ran one after the other, v1 # v2, and the
\* Get returned v2.
C3_Witness ==
    \E p1 \in Req, p2 \in Req, g \in Req :
        /\ req[p1].kind = "Put" /\ req[p2].kind = "Put" /\ req[g].kind = "Get"
        /\ req[p1].key = req[p2].key /\ req[g].key = req[p2].key
        /\ req[p1].status = 200 /\ req[p2].status = 200
        /\ req[p1].ret < req[p2].at /\ req[p2].ret < req[g].at
        /\ req[p1].val # req[p2].val
        /\ req[g].status = 200 /\ req[g].body = req[p2].val

\* C4: RangeGet(p) returns one entry for each record that equals p on the
\* first Len(p) slots, and nothing else.
C4_PrefixScoping ==
    \A g \in Req :
        (req[g].kind = "RangeGet" /\ Ran(g))
        => LET M == Matching(req[g].snap, req[g].key)
           IN  /\ req[g].status = 200
               /\ BagCardinality(req[g].items) = Cardinality(M)
               /\ \A row \in M : BagIn(range_entry(row), req[g].items)
               /\ \A e \in BagToSet(req[g].items) :
                     \E row \in M : e = range_entry(row)

\* RangeGet(["a"]) ran on a table holding ["a","b"] and ["ab"] and returned
\* one entry.
C4_Witness ==
    \E g \in Req :
        /\ req[g].kind = "RangeGet" /\ req[g].key = <<"a">> /\ Ran(g)
        /\ RecordsOf(req[g].snap, <<"ab">>) # {}
        /\ RecordsOf(req[g].snap, <<"a", "b">>) # {}
        /\ BagCardinality(req[g].items) = 1

\* C5: a record stored by Put(k, v), k ending in a non-empty segment, is
\* reported under the key k by every RangeGet whose prefix matches it.
C5_DecodeInverse ==
    \A p \in Req, g \in Req :
        ( /\ req[p].kind = "Put" /\ Ran(p)
          /\ req[p].key[Len(req[p].key)] # ""
          /\ req[g].kind = "RangeGet" /\ Ran(g)
          /\ req[p].at < req[g].at
          /\ RecordsOf(Matching(req[g].snap, req[g].key), req[p].key) # {} )
        => \E e \in BagToSet(req[g].items) : e.key = req[p].key

\* C6: RangeDelete(p) leaves no row matching p and keeps every other row as
\* it was; a RangeGet(p) that runs before any Put under p returns nothing.
C6_RangeDelete ==
    /\ \A d \in Req :
          (req[d].kind = "RangeDelete" /\ Ran(d))
          => /\ Matching(req[d].post, req[d].key) = {}
             /\ req[d].post = req[d].snap \ Matching(req[d].snap, req[d].key)
    /\ \A d \in Req, g \in Req :
          ( /\ req[d].kind = "RangeDelete" /\ Ran(d)
            /\ req[g].kind = "RangeGet" /\ Ran(g)
            /\ req[g].key = req[d].key
            /\ req[d].at < req[g].at
            /\ ~\E w \in Req :
                  /\ req[w].kind = "Put" /\ Ran(w)
                  /\ req[w].at > req[d].at /\ req[w].at < req[g].at )
          => req[g].items = EmptyBag

\* RangeDelete(["a"]) returned Ok on a table holding ["a","b"] and ["ab"]:
\* it removed the first and kept the second.
C6_Witness ==
    \E d \in Req :
        /\ req[d].kind = "RangeDelete" /\ req[d].key = <<"a">>
        /\ req[d].status = 200
        /\ RecordsOf(req[d].snap, <<"a", "b">>) # {}
        /\ RecordsOf(req[d].snap, <<"ab">>) # {}
        /\ req[d].post = RecordsOf(req[d].snap, <<"ab">>)

\* C7: every operation given an empty key or a key of more than 4 segments
\* answers 400, runs no statement and leaves the table as it was.
C7_InvalidKey ==
    \A r \in Req :
        (req[r].kind # "none" /\ ~ValidKey(req[r].key))
        => /\ req[r].pc = "done"
           /\ req[r].status = 400
           /\ req[r].at = 0
           /\ req[r].post = req[r].snap

\* All five operations were tried with the keys the claim names; here a
\* RangeDelete of 5 segments was refused while the table held a row.
C7_Witness ==
    \E r \in Req :
        /\ req[r].kind = "RangeDelete" /\ Len(req[r].key) = 5
        /\ req[r].status = 400
        /\ req[r].snap # {}
        /\ working = req[r].snap

\* C8: Get(k) answers 404 exactly when no row equals the encoded key of k in
\* all 4 slots; so it does after a Delete(k) or a RangeDelete of a prefix of k
\* that no Put on k's record followed.
C8_NotFound ==
    /\ \A g \in Req :
          (req[g].kind = "Get" /\ Ran(g))
          => (req[g].status = 404 <=> RecordsOf(req[g].snap, req[g].key) = {})
    /\ \A d \in Req, g \in Req :
          ( /\ req[d].kind \in {"Delete", "RangeDelete"} /\ WritesTo(d, req[g].key)
            /\ req[g].kind = "Get" /\ Ran(g)
            /\ req[d].at < req[g].at
            /\ ~\E w \in Req :
                  /\ req[w].kind = "Put" /\ WritesTo(w, req[g].key)
                  /\ req[w].at > req[d].at /\ req[w].at < req[g].at )
          => req[g].status = 404

\* Get(["a"]) answered 404 while ["a","b"] was stored.
C8_Witness ==
    \E g \in Req :
        /\ req[g].kind = "Get" /\ req[g].key = <<"a">>
        /\ req[g].status = 404
        /\ RecordsOf(req[g].snap, <<"a", "b">>) # {}

\* C9: Delete(k) answers Ok, record or no record; without a record the table
\* is unchanged; a Delete(k) on the table another Delete(k) left changes
\* nothing.
C9_DeleteIdempotent ==
    /\ \A d \in Req :
          (req[d].kind = "Delete" /\ ValidKey(req[d].key))
          => /\ req[d].pc = "done" => req[d].status = 200
             /\ RecordsOf(req[d].snap, req[d].key) = {} => req[d].post = req[d].snap
             /\ RecordsOf(req[d].post, req[d].key) = {}
    /\ \A d1 \in Req, d2 \in Req :
          ( /\ req[d1].kind = "Delete" /\ req[d2].kind = "Delete"
            /\ Ran(d1) /\ Ran(d2)
            /\ Slots(req[d1].key) = Slots(req[d2].key)
            /\ req[d2].snap = req[d1].post )
          => req[d2].post = req[d1].post

\* Delete(["a"]) removed a record and returned Ok; a second Delete(["a"]) ran
\* after it, found no record, and returned Ok.
C9_Witness ==
    \E d1 \in Req, d2 \in Req :
        /\ req[d1].kind = "Delete" /\ req[d2].kind = "Delete"
        /\ req[d1].key = <<"a">> /\ req[d2].key = <<"a">>
        /\ req[d1].status = 200 /\ req[d2].status = 200
        /\ req[d1].ret < req[d2].at
        /\ req[d1].post # req[d1].snap
        /\ req[d2].post = req[d2].snap

C11_ReadCommitted ==
    \A g \in Req :
        (req[g].kind = "Get" /\ Ran(g))
        => /\ req[g].status = 200 =>
                 [seg |-> Slots(req[g].key), data |-> req[g].body] \in req[g].csnap
           /\ req[g].status = 404 => RecordsOf(req[g].csnap, req[g].key) = {}

\* C12: a Put or Delete that failed with a backend error, at its statement
\* or at its commit, is never part of the committed database, whatever other
\* requests commit later: if its statement changed the table, the database
\* does not hold the statement with the key as the statement left it.
C12_FailedWriteNeverCommitted ==
    \A r \in Req :
        ( /\ req[r].kind \in {"Put", "Delete"} /\ req[r].status = 500
          /\ req[r].post # req[r].snap )
        => ~( /\ req[r].at > 0 /\ req[r].at <= cmark
              /\ RecordsOf(committed, req[r].key) = RecordsOf(req[r].post, req[r].key) )

\* No write to k's record other than those of p1 and p2 ran after the first
\* of the two.
OnlyWriters(p1, p2, k) ==
    ~\E w \in Req :
        /\ w # p1 /\ w # p2 /\ WritesTo(w, k)
        /\ req[w].at > req[p1].at \/ req[w].at > req[p2].at

\* C13: of two Puts to one key, the one whose commit came last wins: once
\* both have answered Ok the database holds its value and a Get returns it;
\* and from the moment both statements ran the stored value is v1 or v2.
C13_LastCommitWins ==
    \A p1 \in Req, p2 \in Req :
        ( /\ p1 # p2
          /\ req[p1].kind = "Put" /\ req[p2].kind = "Put"
          /\ Slots(req[p1].key) = Slots(req[p2].key)
          /\ Ran(p1) /\ Ran(p2)
          /\ OnlyWriters(p1, p2, req[p2].key) )
        => /\ \A row \in RecordsOf(working, req[p2].key) :
                 row.data \in {req[p1].val, req[p2].val}
           /\ ( req[p1].status = 200 /\ req[p2].status = 200
                /\ req[p1].ret < req[p2].ret )
              => /\ RecordsOf(committed, req[p2].key)
                       = { [seg |-> Slots(req[p2].key), data |-> req[p2].val] }
                 /\ \A g \in Req :
                       ( /\ req[g].kind = "Get" /\ Ran(g)
                         /\ Slots(req[g].key) = Slots(req[p2].key)
                         /\ req[g].at > req[p2].ret )
                       => (req[g].status = 200 /\ req[g].body = req[p2].val)

\* Two Puts of different values to one key were in flight together (the one
\* received first committed last), both answered Ok, and a later Get returned
\* the value of the one that committed last.
C13_Witness ==
    \E p1 \in Req, p2 \in Req, g \in Req :
        /\ req[p1].kind = "Put" /\ req[p2].kind = "Put" /\ req[g].kind = "Get"
        /\ req[p1].key = req[p2].key /\ req[g].key = req[p2].key
        /\ req[p1].val # req[p2].val
        /\ req[p1].status = 200 /\ req[p2].status = 200
        /\ p2 < p1 /\ req[p1].ret < req[p2].ret
        /\ req[g].at > req[p2].ret
        /\ req[g].status = 200 /\ req[g].body = req[p2].val

\* Request p1 is a Put whose statement ran before reader g's, and no Delete
\* or RangeDelete touched the record of p1's key between the two.
StoredFor(p1, g) ==
    /\ req[p1].kind = "Put" /\ Ran(p1) /\ Ran(g)
    /\ req[p1].at < req[g].at
    /\ ~\E d \in Req :
          /\ req[d].kind \in {"Delete", "RangeDelete"}
          /\ WritesTo(d, req[p1].key)
          /\ req[d].at > req[p1].at /\ req[d].at < req[g].at

\* C14: once a key has a record and only Puts write to it, every Get of the
\* key answers 200 with the value of one of those Puts, and every RangeGet of
\* a prefix of the key holds exactly one entry made from the key's record.
C14_AtomicUpsert ==
    \A p1 \in Req, g \in Req :
        StoredFor(p1, g)
        => /\ ( req[g].kind = "Get" /\ Slots(req[g].key) = Slots(req[p1].key) )
              => /\ req[g].status = 200
                 /\ \E p \in Req :
                       /\ req[p].kind = "Put" /\ Ran(p)
                       /\ Slots(req[p].key) = Slots(req[p1].key)
                       /\ req[p].at >= req[p1].at /\ req[p].at < req[g].at
                       /\ req[g].body = req[p].val
           /\ ( /\ req[g].kind = "RangeGet"
                /\ \A i \in 1..Len(req[g].key) :
                      Slots(req[p1].key)[i] = req[g].key[i] )
              => LET M  == Matching(req[g].snap, req[g].key)
                     Rk == RecordsOf(M, req[p1].key)
                 IN  /\ Cardinality(Rk) = 1
                     /\ \A row \in Rk :
                           /\ BagIn(range_entry(row), req[g].items)
                           /\ CopiesIn(range_entry(row), req[g].items)
                                = Cardinality({ x \in M :
                                      range_entry(x) = range_entry(row) })

\* A Get ran between the INSERT and the commit of a Put that replaced the
\* value of an existing record, and returned the new value.
C14_Witness ==
    \E p1 \in Req, p2 \in Req, g \in Req :
        /\ req[p1].kind = "Put" /\ req[p2].kind = "Put" /\ req[g].kind = "Get"
        /\ req[p1].key = req[p2].key /\ req[g].key = req[p2].key
        /\ req[p1].val # req[p2].val
        /\ req[p1].status = 200 /\ req[p2].status = 200
        /\ req[p1].ret < req[p2].at
        /\ req[p2].at < req[g].at /\ req[g].at < req[p2].ret
        /\ req[g].status = 200 /\ req[g].body = req[p2].val

\* C15: RangeGet and RangeDelete with a valid prefix never answer 404; when
\* no record matches, RangeGet answers 200 with the empty list, RangeDelete
\* answers Ok, and the table is unchanged.
C15_RangeNeverNotFound ==
    \A r \in Req :
        (req[r].kind \in {"RangeGet", "RangeDelete"} /\ ValidKey(req[r].key))
        => /\ req[r].status # 404
           /\ req[r].pc = "done" => req[r].status = 200
           /\ (Ran(r) /\ Matching(req[r].snap, req[r].key) = {})
              => /\ req[r].post = req[r].snap
                 /\ req[r].kind = "RangeGet" => req[r].items = EmptyBag

\* With only ["ab"] stored, RangeGet(["a"]) answered 200 with the empty list
\* and RangeDelete(["a"]) answered Ok and left the record.
C15_Witness ==
    \E g \in Req, d \in Req :
        /\ req[g].kind = "RangeGet" /\ req[d].kind = "RangeDelete"
        /\ req[g].key = <<"a">> /\ req[d].key = <<"a">>
        /\ req[g].status = 200 /\ req[d].status = 200
        /\ req[g].items = EmptyBag
        /\ RecordsOf(req[g].snap, <<"ab">>) # {}
        /\ req[d].post = req[d].snap /\ req[d].post # {}
        /\ committed = req[d].post

\* The rows of `tbl` stored under other encoded keys than that of k.
OtherRecords(tbl, k) == { row \in tbl : row.seg # Slots(k) }

\* C16: the statement of a Put(k, v) or Delete(k) leaves every record whose
\* encoded key differs from that of k in place with its value.
C16_PointWriteFrame ==
    \A w \in Req :
        (req[w].kind \in {"Put", "Delete"} /\ Ran(w))
        => OtherRecords(req[w].post, req[w].key)
              = OtherRecords(req[w].snap, req[w].key)

\* Delete(["a"]) answered Ok on a table holding ["a"] and ["a","b"]: it
\* removed the first and left the second.
C16_Witness ==
    \E d \in Req :
        /\ req[d].kind = "Delete" /\ req[d].key = <<"a">>
        /\ req[d].status = 200
        /\ RecordsOf(req[d].snap, <<"a">>) # {}
        /\ RecordsOf(req[d].snap, <<"a", "b">>) # {}
        /\ req[d].post = RecordsOf(req[d].snap, <<"a", "b">>)

\* The pairs <<k, k'>> of the key pool where k has 1 to 3 segments, the last
\* one not empty, and k' is k followed by empty segments, 4 at most in all.
TrailingEmptyPairs ==
    { pr \in KeyPool \X KeyPool :
        /\ Len(pr[1]) >= 1 /\ Len(pr[1]) <= 3
        /\ pr[1][Len(pr[1])] # ""
        /\ Len(pr[2]) > Len(pr[1]) /\ Len(pr[2]) <= MAX_SEGMENTS
        /\ \A i \in 1..Len(pr[2]) :
              pr[2][i] = IF i <= Len(pr[1]) THEN pr[1][i] ELSE "" }

\* C17: k' = k followed by empty segments addresses the record of k: after
\* Put(k', v) a Get(k) returns v, a Delete(k) removes the record written
\* through k', and a RangeGet that fetches the record reports it under k.
C17_TrailingEmptyAlias ==
    \A pr \in TrailingEmptyPairs : \A p \in Req :
        (req[p].kind = "Put" /\ req[p].key = pr[2] /\ Ran(p))
        => /\ \A g \in Req :
                ( /\ req[g].kind = "Get" /\ req[g].key = pr[1] /\ Ran(g)
                  /\ req[p].at < req[g].at
                  /\ ~WrittenBetween(pr[1], p, req[p].at, req[g].at) )
                => req[g].status = 200 /\ req[g].body = req[p].val
           /\ \A d \in Req :
                ( /\ req[d].kind = "Delete" /\ req[d].key = pr[1] /\ Ran(d)
                  /\ req[p].at < req[d].at )
                => RecordsOf(req[d].post, pr[2]) = {}
           /\ \A r \in Req :
                ( /\ req[r].kind = "RangeGet" /\ Ran(r)
                  /\ req[p].at < req[r].at
                  /\ RecordsOf(Matching(req[r].snap, req[r].key), pr[2]) # {} )
                => \E e \in BagToSet(req[r].items) : e.key = pr[1]

\* No request other than p1 and p2 has run a write statement.
NoOtherWrite(p1, p2) ==
    ~\E w \in Req : w # p1 /\ w # p2 /\ IsWrite(w) /\ Ran(w)

\* C18: two Puts to different encoded keys, however interleaved and with no
\* other write around, both answer Ok and neither write is lost: once both
\* statements ran the table holds both records, once both answered the
\* database holds both, and a Get of either key after both returns its value.
C18_DisjointPuts ==
    \A p1 \in Req, p2 \in Req :
        ( /\ req[p1].kind = "Put" /\ req[p2].kind = "Put"
          /\ Slots(req[p1].key) # Slots(req[p2].key)
          /\ Ran(p1) /\ Ran(p2)
          /\ NoOtherWrite(p1, p2) )
        => /\ req[p1].pc = "done" => req[p1].status = 200
           /\ [seg |-> Slots(req[p1].key), data |-> req[p1].val] \in working
           /\ [seg |-> Slots(req[p2].key), data |-> req[p2].val] \in working
           /\ (req[p1].status = 200 /\ req[p2].status = 200)
              => /\ [seg |-> Slots(req[p1].key), data |-> req[p1].val]
                        \in committed
                 /\ [seg |-> Slots(req[p2].key), data |-> req[p2].val]
                        \in committed
           /\ \A g \in Req :
                ( /\ req[g].kind = "Get" /\ Ran(g)
                  /\ Slots(req[g].key) = Slots(req[p1].key)
                  /\ req[g].at > req[p1].at /\ req[g].at > req[p2].at )
                => req[g].status = 200 /\ req[g].body = req[p1].val

\* Put(k1, v1) and Put(k2, v2) on keys sharing their first segment both
\* answered Ok, and a Get(k1) that ran after both statements, before the
\* second Put answered, returned v1.
C18_Witness ==
    \E p1 \in Req, p2 \in Req, g \in Req :
        /\ req[p1].kind = "Put" /\ req[p2].kind = "Put"
        /\ req[p1].key = <<"a">> /\ req[p2].key = <<"a", "b">>
        /\ req[p1].val # req[p2].val
        /\ req[p1].status = 200 /\ req[p2].status = 200
        /\ req[p1].at < req[p2].at
        /\ req[g].kind = "Get" /\ req[g].key = <<"a">>
        /\ req[g].at > req[p2].at /\ req[g].ret < req[p2].ret
        /\ req[g].status = 200 /\ req[g].body = req[p1].val

\* C19: a step in which a Get or a RangeGet is served, whether it answers
\* Ok, InvalidKey or NotFound, leaves the table on the connection and the
\* database as they were: no record is created, replaced or removed, and the
\* writes other requests left pending stay pending.
C19_ReadOnly ==
    [][ \A r \in Req :
          (req[r].pc = "idle" /\ req'[r].kind \in {"Get", "RangeGet"})
          => /\ working' = working
             /\ committed' = committed
             /\ wmark' = wmark
             /\ cmark' = cmark ]_vars

\* A Put's statement is still uncommitted after a Get that answered NotFound
\* and a RangeGet that reported the Put's record both ran behind it.
C19_Witness ==
    \E w \in Req, g \in Req, l \in Req :
        /\ req[w].kind = "Put" /\ req[w].pc = "commit"
        /\ req[w].at = wmark /\ wmark # cmark
        /\ ~(\E row \in committed : row.seg = Slots(req[w].key))
        /\ req[g].kind = "Get" /\ req[g].status = 404
        /\ req[g].at > req[w].at
        /\ req[l].kind = "RangeGet" /\ req[l].status = 200
        /\ req[l].at > req[w].at
        /\ req[l].items # EmptyBag

=============================================================================
